---- MODULE Spec2Model ----
(***************************************************************************)
(* Model of main.py: the three POST handlers (/chart, /deep_analysis,      *)
(* /bazi), the two chart providers they call, and the pure helpers         *)
(* (date/time parsing, house assignment, sign classification).             *)
(*                                                                         *)
(* Angles are fixed-point integers: one unit is 1/Resolution degree.       *)
(* Strings are sequences of one-character strings.  Values the code gets   *)
(* from trigonometric series or from the swisseph / lunar_python packages  *)
(* are inputs of the action that consumes them.                            *)
(***************************************************************************)
EXTENDS Integers, Sequences, FiniteSets, TLC

VARIABLES
    SWISSEPH_AVAILABLE, \* main.py:52-59, set once at import
    LUNAR_AVAILABLE,    \* main.py:12-18, set once at import
    pc,                 \* where the request being served is in the code
    request,            \* the request being served
    birth_date,         \* the date string the handler gives the providers
    loop,               \* index of the body a provider's loop is at
    swiss,              \* what calculate_swiss_ephemeris_chart has done
    fallback,           \* what create_advanced_fallback_chart has done
    bazi,               \* what calculate_bazi_chart has done
    response,           \* the object the handler returned
    fn,                 \* classifier harness: the helper last applied
    arg,                \* classifier harness: its arguments
    ret                 \* classifier harness: what it returned

vars == <<SWISSEPH_AVAILABLE, LUNAR_AVAILABLE, pc, request, birth_date, loop,
          swiss, fallback, bazi, response, fn, arg, ret>>

serverVars == <<SWISSEPH_AVAILABLE, LUNAR_AVAILABLE, pc, request, birth_date,
                loop, swiss, fallback, bazi, response>>

-----------------------------------------------------------------------------
(* Bounds of the model. *)

\* Units per degree of the fixed-point angles.
Resolution == 1000

\* Number of evenly spread whole-degree sample longitudes.
NumSamples == 8

-----------------------------------------------------------------------------
(* Angles. *)

Circle == 360 * Resolution

SignWidth == 30 * Resolution

Deg(d) == d * Resolution

\* x % 360 on an angle (Python's % is non-negative for a positive modulus).
Mod360(x) == x % Circle

\* round(x, 2): the nearest hundredth of a degree, ties to even; the result
\* is counted in hundredths, so 36000 stands for 360.0.
round2(x) ==
    LET n == x * 100
        q == n \div Resolution
        r == n % Resolution
    IN  IF 2 * r < Resolution THEN q
        ELSE IF 2 * r > Resolution THEN q + 1
        ELSE IF q % 2 = 0 THEN q ELSE q + 1

-----------------------------------------------------------------------------
(* Strings: sequences of one-character strings. *)

Digits == <<"0", "1", "2", "3", "4", "5", "6", "7", "8", "9">>

IsDigit(c) == \E i \in 1..10 : Digits[i] = c

DigitVal(c) == (CHOOSE i \in 1..10 : Digits[i] = c) - 1

\* str.isdigit(): non-empty and all digits.
isdigit(s) == Len(s) > 0 /\ \A i \in 1..Len(s) : IsDigit(s[i])

RECURSIVE NatOf(_)
NatOf(s) == IF Len(s) = 0 THEN 0
            ELSE 10 * NatOf(SubSeq(s, 1, Len(s) - 1)) + DigitVal(s[Len(s)])

\* int(s): a ValueError unless s is digits with an optional leading "-".
int(s) ==
    IF isdigit(s) THEN [ok |-> TRUE, val |-> NatOf(s)]
    ELSE IF Len(s) > 1 /\ s[1] = "-" /\ isdigit(Tail(s))
         THEN [ok |-> TRUE, val |-> 0 - NatOf(Tail(s))]
    ELSE [ok |-> FALSE, val |-> 0]

Contains(s, c) == \E i \in 1..Len(s) : s[i] = c

\* str.split(sep) for a one-character separator.
RECURSIVE split(_, _)
split(s, sep) ==
    IF ~Contains(s, sep) THEN <<s>>
    ELSE LET i == CHOOSE k \in 1..Len(s) :
                     s[k] = sep /\ \A j \in 1..(k - 1) : s[j] # sep
         IN  <<SubSeq(s, 1, i - 1)>> \o split(SubSeq(s, i + 1, Len(s)), sep)

\* re.sub(r'[^0-9]', '', s)
DigitsOnly(s) == SelectSeq(s, IsDigit)

\* str.zfill(2): pad on the left with "0" to two characters (after a sign).
zfill2(s) ==
    IF Len(s) >= 2 THEN s
    ELSE IF Len(s) = 1 /\ s[1] = "-" THEN <<"-", "0">>
    ELSE IF Len(s) = 1 THEN <<"0">> \o s
    ELSE <<"0", "0">>

-----------------------------------------------------------------------------
(* parse_date_string, parse_time_string *)

NoDate == [ok |-> FALSE, year |-> 0, month |-> 0, day |-> 0]

DateOf(y, m, d) ==
    IF y.ok /\ m.ok /\ d.ok
    THEN [ok |-> TRUE, year |-> y.val, month |-> m.val, day |-> d.val]
    ELSE NoDate

\* The '-' branch of parse_date_string (lines 107-110).
parse_date_dash(date_str) ==
    LET parts == split(date_str, "-")
    IN  IF Contains(date_str, "-") /\ Len(parts) = 3
        THEN DateOf(int(parts[1]), int(parts[2]), int(parts[3]))
        ELSE NoDate

\* ok = FALSE stands for the ValueError every failure is turned into.
parse_date_string(date_str) ==
    LET clean_date == DigitsOnly(date_str)
        parts == split(date_str, "/")
    IN  IF Len(clean_date) = 8
        THEN DateOf(int(SubSeq(clean_date, 1, 4)), int(SubSeq(clean_date, 5, 6)),
                    int(SubSeq(clean_date, 7, 8)))
        ELSE IF Contains(date_str, "/") /\ Len(parts) = 3
        THEN IF Len(parts[1]) = 4
             THEN DateOf(int(parts[1]), int(parts[2]), int(parts[3]))
             ELSE DateOf(int(parts[3]), int(parts[1]), int(parts[2]))
        ELSE parse_date_dash(date_str)

\* Every failure yields (12, 0).
parse_time_string(time_str) ==
    LET clean_time == SelectSeq(time_str, LAMBDA c : c # " ")
        parts == split(clean_time, ":")
        noon == [hour |-> 12, minute |-> 0]
    IN  IF Contains(clean_time, ":")
        THEN LET h == int(parts[1])
                 m == int(parts[2])
             IN  IF h.ok /\ m.ok THEN [hour |-> h.val, minute |-> m.val]
                 ELSE noon
        ELSE IF Len(clean_time) = 4 /\ isdigit(clean_time)
        THEN [hour |-> NatOf(SubSeq(clean_time, 1, 2)),
              minute |-> NatOf(SubSeq(clean_time, 3, 4))]
        ELSE IF Len(clean_time) <= 2 /\ isdigit(clean_time)
        THEN [hour |-> NatOf(clean_time), minute |-> 0]
        ELSE noon

-----------------------------------------------------------------------------
(* Lookup tables (lines 31-50). *)

SIGN_NAMES == [n \in 0..11 |->
    <<"Aries", "Taurus", "Gemini", "Cancer", "Leo", "Virgo", "Libra",
      "Scorpio", "Sagittarius", "Capricorn", "Aquarius", "Pisces">>[n + 1]]

HOUSE_NAMES == [n \in 1..12 |-> <<"house", n>>]

\* PLANET_NAMES for the ids 0..9 that calculate_swiss_ephemeris_chart loops over.
PLANET_NAMES == [n \in 0..9 |->
    <<"Sun", "Moon", "Mercury", "Venus", "Mars", "Jupiter", "Saturn",
      "Uranus", "Neptune", "Pluto">>[n + 1]]

\* Insertion order of planet_positions in create_advanced_fallback_chart
\* (lines 492, 494-501, 528-529, 533).
FallbackOrder ==
    <<"Sun", "Moon", "Mercury", "Venus", "Mars", "Jupiter", "Saturn",
      "Uranus", "Neptune", "Pluto", "Ascendant", "Midheaven", "NorthNode">>

-----------------------------------------------------------------------------
(* Position classifier. *)

\* The test of lines 306-311 for one house_num.
house_test(planet_lon, houses, house_num) ==
    LET next_house == IF house_num < 12 THEN house_num + 1 ELSE 1
        house_start == houses[house_num]
        house_end == houses[next_house]
    IN  IF house_start < house_end
        THEN house_start <= planet_lon /\ planet_lon < house_end
        ELSE planet_lon >= house_start \/ planet_lon < house_end

\* The loop of get_planet_house from house_num on; 1 when it runs out.
RECURSIVE house_loop(_, _, _)
house_loop(planet_lon, houses, house_num) ==
    IF house_num > 12 THEN 1
    ELSE IF house_test(planet_lon, houses, house_num) THEN house_num
    ELSE house_loop(planet_lon, houses, house_num + 1)

\* A mutant of get_planet_house: houses are counted from 0.
get_planet_house_from_zero(planet_lon, houses) ==
    IF Len(houses) < 12 THEN 1
    ELSE house_loop(Mod360(planet_lon), houses, 1) - 1

\* A mutant of get_planet_house: a house also takes the cusp that ends it.
get_planet_house_closed(planet_lon, houses) ==
    LET lon == Mod360(planet_lon)
        hit == {h \in 1..12 :
                   LET a == houses[h]
                       b == houses[(h % 12) + 1]
                   IN  IF a < b THEN a <= lon /\ lon <= b
                       ELSE lon >= a \/ lon <= b}
    IN  IF hit = {} THEN 1 ELSE CHOOSE h \in hit : \A k \in hit : h <= k

\* A mutant of get_planet_house: the wraparound branch is missing.
get_planet_house_nowrap(planet_lon, houses) ==
    LET lon == Mod360(planet_lon)
        hit == {h \in 1..11 : houses[h] <= lon /\ lon < houses[h + 1]}
    IN  IF hit = {} THEN 1 ELSE CHOOSE h \in hit : \A k \in hit : h <= k

\* An IndexError (fewer than 12 cusps) is caught and answered with 1.
get_planet_house(planet_lon, houses) ==
    IF Len(houses) < 12 THEN 1
    ELSE house_loop(Mod360(planet_lon), houses, 1)

\* A mutant of sign_of: the sign is counted from 1.
sign_of_from_one(longitude) == longitude \div SignWidth + 1

\* sign_num = int(longitude // 30)
sign_of(longitude) == longitude \div SignWidth

\* A mutant of decimal_to_degrees_minutes: the degree is not reduced mod 30.
decimal_to_degrees_minutes_noreduce(decimal_degrees) ==
    LET sign_degree == decimal_degrees
        degrees == sign_degree \div Resolution
        minutes == ((sign_degree - degrees * Resolution) * 60) \div Resolution
    IN  [sign_degree |-> sign_degree, degrees |-> degrees, minutes |-> minutes]

\* Returns (degrees, minutes); sign_degree is its local of that name.
decimal_to_degrees_minutes(decimal_degrees) ==
    LET sign_degree == decimal_degrees % SignWidth
        degrees == sign_degree \div Resolution
        minutes == ((sign_degree - degrees * Resolution) * 60) \div Resolution
    IN  [sign_degree |-> sign_degree, degrees |-> degrees, minutes |-> minutes]

\* A mutant of equal_houses: the cusps are not reduced mod 360.
equal_houses_nomod(asc_lon) ==
    [i \in 1..12 |-> asc_lon + (i - 1) * SignWidth]

\* houses = [(asc_lon + i * 30) % 360 for i in range(12)]
equal_houses(asc_lon) ==
    [i \in 1..12 |-> Mod360(asc_lon + (i - 1) * SignWidth)]

-----------------------------------------------------------------------------
(* Sample inputs. *)

\* Longitudes in [0, 360): NumSamples evenly spread whole degrees and the
\* edges of signs, of the circle and of the rounding step.
Longitudes ==
    {Deg((360 * k) \div NumSamples) : k \in 0..(NumSamples - 1)}
    \cup {Deg(5), Deg(10), Deg(15), Deg(30) - 1, Deg(190), Deg(355),
          Circle - 6, Circle - 4, Circle - 1}

SumSeq(g) == g[1] + g[2] + g[3] + g[4] + g[5] + g[6]

\* Widths of six consecutive houses spanning half the circle.
HalfGaps ==
    {g \in [1..6 -> {Deg(15), Deg(30), Deg(45)}] : SumSeq(g) = Deg(180)}

Reverse(g) == [i \in 1..6 |-> g[7 - i]]

RECURSIVE Prefix(_, _)
Prefix(w, i) == IF i = 0 THEN 0 ELSE Prefix(w, i - 1) + w[i]

\* The 12 cusps that start at `start` and have the widths w[1..11].
CuspsFrom(start, w) == [i \in 1..12 |-> Mod360(start + Prefix(w, i - 1))]

\* The cusps of the wraparound example, and an uneven variant of it.
ExampleCusps ==
    {[i \in 1..12 |-> Deg(<<10, 40, 70, 100, 130, 160, 190, 220, 250, 280,
                            310, 350>>[i])],
     [i \in 1..12 |-> Deg(<<10, 25, 60, 100, 120, 180, 200, 250, 270, 300,
                            330, 350>>[i])]}

\* Sequences of 12 circular cusps: strictly forward, one turn in all.
CuspSequences ==
    UNION {{CuspsFrom(s, g \o g), CuspsFrom(s, g \o Reverse(g))} :
              s \in Longitudes, g \in HalfGaps}
    \cup ExampleCusps

-----------------------------------------------------------------------------
(* Date and time handling shared by the providers. *)

\* The "validation" block (lines 160-167, 326-333, 426-433): an out-of-range
\* field is replaced, the request goes on.
validate_datetime(d, t) ==
    [year   |-> d.year,
     month  |-> IF 1 <= d.month /\ d.month <= 12 THEN d.month ELSE 1,
     day    |-> IF 1 <= d.day /\ d.day <= 31 THEN d.day ELSE 1,
     hour   |-> IF 0 <= t.hour /\ t.hour <= 23 THEN t.hour ELSE 12,
     minute |-> IF 0 <= t.minute /\ t.minute <= 59 THEN t.minute ELSE 0]

\* int(n / d) for d > 0: truncation toward zero.
Trunc(n, d) == IF n >= 0 THEN n \div d ELSE 0 - ((0 - n) \div d)

\* A mutant of julian_day: January and February stay months 1 and 2 of
\* their own year.
julian_day_noshift(year0, month0, day, hour, minute) ==
    LET A == year0 \div 100
        B == 2 - A + A \div 4
        days == Trunc(36525 * (year0 + 4716), 100)
                + Trunc(306001 * (month0 + 1), 10000) + day + B - 1524
    IN  [halfdays |-> 2 * days - 1, minutes |-> hour * 60 + minute]

\* Lines 436-443.  JD = days - 0.5 + minutes / 1440 is returned exactly, as
\* twice the day part (an odd number) and the minutes past it.
julian_day(year0, month0, day, hour, minute) ==
    LET year == IF month0 <= 2 THEN year0 - 1 ELSE year0
        month == IF month0 <= 2 THEN month0 + 12 ELSE month0
        A == year \div 100
        B == 2 - A + A \div 4
        days == Trunc(36525 * (year + 4716), 100)
                + Trunc(306001 * (month + 1), 10000) + day + B - 1524
    IN  [halfdays |-> 2 * days - 1, minutes |-> hour * 60 + minute]

\* format_degree_minute is called at lines 365, 384, 398, 410 and 555 and is
\* bound nowhere in main.py (the helper defined at line 143 is named
\* decimal_to_degrees_minutes): evaluating the call raises NameError.
format_degree_minute(longitude) ==
    [raised |-> TRUE, error |-> "NameError: format_degree_minute", text |-> <<>>]

-----------------------------------------------------------------------------
(* What a provider call leaves behind. *)

NoAttempt == [name |-> "", longitude |-> 0, sign_num |-> 0, house_num |-> 0,
              rounded |-> 0]

NoFields == [year |-> 0, month |-> 0, day |-> 0, hour |-> 0, minute |-> 0]

\* called: the provider was entered; raised/error: it ended by raising;
\* fields: year..minute after the validation block; jd: the Julian day when
\* the repository's code computed it; houses, asc, mc: the cusps and angles;
\* attempt: the locals of the entry built last (longitude, sign_num,
\* house_num, and round(longitude, 2), the first value of the dict display);
\* result: the dict; skipped: bodies whose own try block caught an exception;
\* faulted: those of them for which swe.calc_ut itself raised.
Outcome(raised, error, fields, jd, houses, asc, mc) ==
    [called |-> TRUE, raised |-> raised, error |-> error, fields |-> fields,
     jd |-> jd, houses |-> houses, asc |-> asc, mc |-> mc,
     attempt |-> NoAttempt, result |-> <<>>, skipped |-> {}, faulted |-> {}]

NotCalled ==
    [called |-> FALSE, raised |-> FALSE, error |-> "", fields |-> NoFields,
     jd |-> <<>>, houses |-> <<>>, asc |-> 0, mc |-> 0,
     attempt |-> NoAttempt, result |-> <<>>, skipped |-> {}, faulted |-> {}]

Raised(error) == Outcome(TRUE, error, NoFields, <<>>, <<>>, 0, 0)

EntryOf(rounded, sign_num, house_num, text, speed) ==
    [longitude |-> rounded, sign |-> sign_num,
     sign_name |-> IF sign_num \in DOMAIN SIGN_NAMES THEN SIGN_NAMES[sign_num]
                   ELSE "sign?",
     house |-> house_num, house_name |-> HOUSE_NAMES[house_num],
     degree_format |-> text, speed |-> speed]

Locals(name, longitude, sign_num, house_num, rounded) ==
    [name |-> name, longitude |-> longitude, sign_num |-> sign_num,
     house_num |-> house_num, rounded |-> rounded]

-----------------------------------------------------------------------------
(* create_advanced_fallback_chart (lines 419-562). *)

\* A mutant of fallback_setup: the minute is read only on /deep_analysis,
\* from the request being served and not from the arguments.
fallback_setup_by_endpoint(d, t, asc_lon, LST) ==
    LET f == [validate_datetime(d, t) EXCEPT
                  !.minute = IF request.endpoint = "/chart" THEN 0 ELSE @]
    IN  Outcome(FALSE, "", f,
                <<julian_day(f.year, f.month, f.day, f.hour, f.minute)>>,
                equal_houses(asc_lon), asc_lon, Mod360(LST + Deg(90)))

\* Lines 422-539 once the date has parsed: the validation block, the Julian
\* day, and the equal-house cusps from the Ascendant.  The Ascendant and the
\* sidereal time come from arctangents and sines the model does not
\* evaluate: they are inputs, each already reduced mod 360 by the code.
fallback_setup(d, t, asc_lon, LST) ==
    Outcome(FALSE, "", validate_datetime(d, t),
            <<julian_day(validate_datetime(d, t).year,
                         validate_datetime(d, t).month,
                         validate_datetime(d, t).day,
                         validate_datetime(d, t).hour,
                         validate_datetime(d, t).minute)>>,
            equal_houses(asc_lon), asc_lon, Mod360(LST + Deg(90)))

\* One iteration of the loop of lines 543-557.
fallback_entry(planet_name, position, acc) ==
    LET longitude == Mod360(position)
        sign_num == sign_of(longitude)
        house_num == get_planet_house(longitude, acc.houses)
        rounded == round2(longitude)
        fmt == format_degree_minute(longitude)
    IN  IF sign_num \notin DOMAIN SIGN_NAMES
        THEN [acc EXCEPT !.raised = TRUE, !.error = "KeyError: SIGN_NAMES",
                         !.attempt = Locals(planet_name, longitude, sign_num,
                                            0, 0)]
        ELSE IF fmt.raised
        THEN [acc EXCEPT !.raised = TRUE, !.error = fmt.error,
                         !.attempt = Locals(planet_name, longitude, sign_num,
                                            house_num, rounded)]
        ELSE [acc EXCEPT !.attempt = Locals(planet_name, longitude, sign_num,
                                            house_num, rounded),
                         !.result = (planet_name :>
                             EntryOf(rounded, sign_num, house_num, fmt.text, 0))
                             @@ @]

-----------------------------------------------------------------------------
(* calculate_swiss_ephemeris_chart (lines 316-417).  The swisseph package  *)
(* is outside the repository: what swe.houses and swe.calc_ut return or    *)
(* raise is an input of the step that calls them.                          *)

\* One body's try block (lines 349-369, 372-388): an exception in it, from
\* swe.calc_ut (fault) or from building the entry, is printed and the body
\* is left out of the result.
swiss_body(name, fault, longitude, speed, acc) ==
    LET sign_num == sign_of(longitude)
        house_num == get_planet_house(longitude, acc.houses)
        rounded == round2(longitude)
        fmt == format_degree_minute(longitude)
    IN  IF fault
        THEN [acc EXCEPT !.skipped = @ \cup {name}, !.faulted = @ \cup {name}]
        ELSE IF fmt.raised
        THEN [acc EXCEPT !.skipped = @ \cup {name},
                         !.attempt = Locals(name, longitude, sign_num,
                                            house_num, rounded)]
        ELSE [acc EXCEPT !.attempt = Locals(name, longitude, sign_num,
                                            house_num, rounded),
                         !.result = (name :>
                             EntryOf(rounded, sign_num, house_num, fmt.text,
                                     speed)) @@ @]

\* The Ascendant and Midheaven entries (lines 390-412), outside any inner
\* try: an exception here ends the function through line 417.
swiss_angle(name, angle, house, acc) ==
    LET sign_num == sign_of(angle)
        rounded == round2(angle)
        fmt == format_degree_minute(angle)
    IN  IF acc.raised THEN acc
        ELSE IF fmt.raised
        THEN [acc EXCEPT !.raised = TRUE, !.error = fmt.error,
                         !.attempt = Locals(name, angle, sign_num, house,
                                            rounded)]
        ELSE [acc EXCEPT !.attempt = Locals(name, angle, sign_num, house,
                                            rounded),
                         !.result = (name :>
                             EntryOf(rounded, sign_num, house, fmt.text, 0))
                             @@ @]

-----------------------------------------------------------------------------
(* The handlers' responses. *)

Response(status, message, method, chart, bazi_method, bazi_chart) ==
    [status |-> status, message |-> message, method |-> method,
     chart |-> chart, bazi_method |-> bazi_method, bazi |-> bazi_chart]

NoResponse == Response("", "", "", <<>>, "", <<>>)

\* What the client gets when an exception leaves a handler: no response
\* object of the handler's.
RawFault(error) == Response("", error, "", <<>>, "", <<>>)

\* The except clause that ends each handler (lines 647-652, 819-824, 862-867).
error_response(error) == Response("error", error, "", <<>>, "", <<>>)

\* {"錯誤": str(e)}
ErrorDict(error) == "error" :> error

\* Lines 774-790 and 830-846: the date is brought to YYYYMMDD when it can be.
clean_request_date(date) ==
    LET clean_date == DigitsOnly(date)
        slash == split(date, "/")
        dash == split(date, "-")
    IN  IF Len(clean_date) = 8 THEN clean_date
        ELSE IF Contains(date, "/")
        THEN IF Len(slash) = 3
             THEN IF Len(slash[1]) = 4
                  THEN slash[1] \o zfill2(slash[2]) \o zfill2(slash[3])
                  ELSE slash[3] \o zfill2(slash[1]) \o zfill2(slash[2])
             ELSE clean_date
        ELSE IF Contains(date, "-") /\ Len(dash) = 3
        THEN dash[1] \o zfill2(dash[2]) \o zfill2(dash[3])
        ELSE clean_date

-----------------------------------------------------------------------------
(* Inputs of the server. *)

\* "20000101", "20001345", "1/5/1990", "1999-2-3", "abc"
DateStrings ==
    {<<"2", "0", "0", "0", "0", "1", "0", "1">>,
     <<"2", "0", "0", "0", "1", "3", "4", "5">>,
     <<"1", "/", "5", "/", "1", "9", "9", "0">>,
     <<"1", "9", "9", "9", "-", "2", "-", "3">>,
     <<"a", "b", "c">>}

\* "12:30", "0730", "7", "25:61", "ab"
TimeStrings ==
    {<<"1", "2", ":", "3", "0">>, <<"0", "7", "3", "0">>, <<"7">>,
     <<"2", "5", ":", "6", "1">>, <<"a", "b">>}

Requests(endpoint) ==
    [endpoint : {endpoint}, date : DateStrings, time : TimeStrings,
     lat : {Deg(25)}, lon : {Deg(121)}, users : {1}]

\* A /deep_analysis call with an empty list of users.
NoUsers ==
    [endpoint |-> "/deep_analysis", date |-> <<>>, time |-> <<>>,
     lat |-> 0, lon |-> 0, users |-> 0]

NoRequest ==
    [endpoint |-> "", date |-> <<>>, time |-> <<>>, lat |-> 0, lon |-> 0,
     users |-> 0]

\* Values of asc_lon (line 521-523) and of LST (line 511).
Ascendants == {0, Deg(15), Deg(100) + 1, Deg(190), Deg(350)}

SiderealTimes == {Deg(20), Deg(275)}

\* Cusps swe.houses returns.
SwissCusps == ExampleCusps \cup {equal_houses(Deg(15))}

\* Bodies for which swe.calc_ut may raise.
FaultyBodies == {"Mars", "NorthNode"}

\* Longitudes swe.calc_ut returns.
SwissLongitudes == {Deg(5), Deg(100), Deg(355), Circle - 4}

NoBazi == [called |-> FALSE, raised |-> FALSE, error |-> "", solar |-> NoFields]

-----------------------------------------------------------------------------
(* The server.  One request is served at a time; pc is the place in the    *)
(* handler or in the provider it has called.                               *)

Init ==
    /\ SWISSEPH_AVAILABLE \in BOOLEAN
    /\ LUNAR_AVAILABLE \in BOOLEAN
    /\ pc = "idle"
    /\ request = NoRequest
    /\ birth_date = <<>>
    /\ loop = 0
    /\ swiss = NotCalled
    /\ fallback = NotCalled
    /\ bazi = NoBazi
    /\ response = NoResponse
    /\ fn = "none"
    /\ arg = <<>>
    /\ ret = <<>>

\* POST /chart, lines 773-798: the date is cleaned; the high-precision
\* provider is tried when the package was imported, else the raise of line
\* 798 leads to the fallback.
Chart ==
    /\ pc = "idle"
    /\ \E req \in Requests("/chart") :
          /\ request' = req
          /\ birth_date' = clean_request_date(req.date)
    /\ pc' = IF SWISSEPH_AVAILABLE THEN "swiss" ELSE "fallback"
    /\ UNCHANGED <<SWISSEPH_AVAILABLE, LUNAR_AVAILABLE, loop, swiss, fallback,
                   bazi, response, fn, arg, ret>>

\* POST /deep_analysis, lines 587-608: an empty list raises HTTPException
\* inside the try; else one provider is chosen by SWISSEPH_AVAILABLE.
DeepAnalysis ==
    /\ pc = "idle"
    /\ \E req \in Requests("/deep_analysis") \cup {NoUsers} :
          /\ request' = req
          /\ birth_date' = req.date
          /\ IF req.users = 0
             THEN /\ pc' = "done"
                  /\ response' = error_response("HTTPException 400")
             ELSE /\ pc' = IF SWISSEPH_AVAILABLE THEN "swiss" ELSE "fallback"
                  /\ response' = response
    /\ UNCHANGED <<SWISSEPH_AVAILABLE, LUNAR_AVAILABLE, loop, swiss, fallback,
                   bazi, fn, arg, ret>>

\* POST /bazi, lines 829-854.
Bazi ==
    /\ pc = "idle"
    /\ \E req \in Requests("/bazi") :
          /\ request' = req
          /\ birth_date' = clean_request_date(req.date)
    /\ IF LUNAR_AVAILABLE
       THEN /\ pc' = "bazi"
            /\ response' = response
       ELSE /\ pc' = "done"
            /\ response' = Response("success", "", "", <<>>, "failed",
                                    ErrorDict("lunar-python unavailable"))
    /\ UNCHANGED <<SWISSEPH_AVAILABLE, LUNAR_AVAILABLE, loop, swiss, fallback,
                   bazi, fn, arg, ret>>

\* calculate_swiss_ephemeris_chart, lines 318-345: availability, parsing,
\* validation, swe.julday and swe.houses.
SwissEnter ==
    /\ pc = "swiss"
    /\ IF ~SWISSEPH_AVAILABLE
       THEN /\ swiss' = Raised("Swiss Ephemeris unavailable")
            /\ pc' = "swiss_return"
       ELSE IF ~parse_date_string(birth_date).ok
       THEN /\ swiss' = Raised("ValueError: date")
            /\ pc' = "swiss_return"
       ELSE \E houses_raise \in BOOLEAN :
            \E cusps \in IF houses_raise THEN {<<>>} ELSE SwissCusps :
               IF houses_raise
               THEN /\ swiss' = Outcome(TRUE, "swe.houses",
                                  validate_datetime(
                                      parse_date_string(birth_date),
                                      parse_time_string(request.time)),
                                  <<>>, <<>>, 0, 0)
                    /\ pc' = "swiss_return"
               ELSE /\ swiss' = Outcome(FALSE, "",
                                  validate_datetime(
                                      parse_date_string(birth_date),
                                      parse_time_string(request.time)),
                                  <<>>, cusps, cusps[1], cusps[10])
                    /\ pc' = "swiss_planet"
    /\ loop' = 0
    /\ UNCHANGED <<SWISSEPH_AVAILABLE, LUNAR_AVAILABLE, request, birth_date,
                   fallback, bazi, response, fn, arg, ret>>

\* Lines 348-369: one planet_id of range(10).
SwissPlanet ==
    /\ pc = "swiss_planet"
    /\ \E fault \in IF PLANET_NAMES[loop] \in FaultyBodies THEN BOOLEAN
                     ELSE {FALSE} :
       \E longitude \in IF fault THEN {0} ELSE SwissLongitudes :
          swiss' = swiss_body(PLANET_NAMES[loop], fault, longitude, 1, swiss)
    /\ loop' = loop + 1
    /\ pc' = IF loop = 9 THEN "swiss_node" ELSE "swiss_planet"
    /\ UNCHANGED <<SWISSEPH_AVAILABLE, LUNAR_AVAILABLE, request, birth_date,
                   fallback, bazi, response, fn, arg, ret>>

\* Lines 371-388: the mean node.
SwissNode ==
    /\ pc = "swiss_node"
    /\ \E fault \in IF "NorthNode" \in FaultyBodies THEN BOOLEAN ELSE {FALSE} :
       \E longitude \in IF fault THEN {0} ELSE SwissLongitudes :
          swiss' = swiss_body("NorthNode", fault, longitude, 1, swiss)
    /\ pc' = "swiss_angles"
    /\ UNCHANGED <<SWISSEPH_AVAILABLE, LUNAR_AVAILABLE, request, birth_date,
                   loop, fallback, bazi, response, fn, arg, ret>>

\* Lines 390-417: the Ascendant and Midheaven entries, and the return.
SwissAngles ==
    /\ pc = "swiss_angles"
    /\ swiss' = swiss_angle("Midheaven", swiss.mc, 10,
                            swiss_angle("Ascendant", swiss.asc, 1, swiss))
    /\ pc' = "swiss_return"
    /\ UNCHANGED <<SWISSEPH_AVAILABLE, LUNAR_AVAILABLE, request, birth_date,
                   loop, fallback, bazi, response, fn, arg, ret>>

\* analyze_chart, lines 796-811 and 813-817 after the high-precision call:
\* its exception leads to the fallback, its chart is returned.
ChartAfterSwiss ==
    /\ pc = "swiss_return"
    /\ request.endpoint = "/chart"
    /\ IF swiss.raised
       THEN /\ pc' = "fallback"
            /\ response' = response
       ELSE /\ pc' = "done"
            /\ response' = Response("success", "", "swiss", swiss.result,
                                    "", <<>>)
    /\ UNCHANGED <<SWISSEPH_AVAILABLE, LUNAR_AVAILABLE, request, birth_date,
                   loop, swiss, fallback, bazi, fn, arg, ret>>

\* create_advanced_fallback_chart, lines 421-539.
FallbackEnter ==
    /\ pc = "fallback"
    /\ IF ~parse_date_string(birth_date).ok
       THEN /\ fallback' = Raised("ValueError: date")
            /\ pc' = "fallback_return"
       ELSE /\ \E asc_lon \in Ascendants, LST \in SiderealTimes :
                  fallback' = fallback_setup(parse_date_string(birth_date),
                                             parse_time_string(request.time),
                                             asc_lon, LST)
            /\ pc' = "fallback_entry"
    /\ loop' = 1
    /\ UNCHANGED <<SWISSEPH_AVAILABLE, LUNAR_AVAILABLE, request, birth_date,
                   swiss, bazi, response, fn, arg, ret>>

\* Lines 543-557: one item of planet_positions.  The positions of the Sun,
\* the Moon, the planets and the node are values of the series of lines
\* 450-533, inputs here; the angles are those the cusps were built from.
FallbackEntry ==
    /\ pc = "fallback_entry"
    /\ \E position \in
            IF FallbackOrder[loop] = "Ascendant" THEN {fallback.asc}
            ELSE IF FallbackOrder[loop] = "Midheaven" THEN {fallback.mc}
            ELSE Longitudes :
          fallback' = fallback_entry(FallbackOrder[loop], position, fallback)
    /\ loop' = loop + 1
    /\ pc' = IF fallback'.raised \/ loop = Len(FallbackOrder)
             THEN "fallback_return" ELSE "fallback_entry"
    /\ UNCHANGED <<SWISSEPH_AVAILABLE, LUNAR_AVAILABLE, request, birth_date,
                   swiss, bazi, response, fn, arg, ret>>

\* analyze_chart, lines 800-824 after the fallback call: its exception
\* reaches the handler's except clause.
ChartAfterFallback ==
    /\ pc = "fallback_return"
    /\ request.endpoint = "/chart"
    /\ response' = IF fallback.raised THEN error_response(fallback.error)
                   ELSE Response("success", "", "fallback", fallback.result,
                                 "", <<>>)
    /\ pc' = "done"
    /\ UNCHANGED <<SWISSEPH_AVAILABLE, LUNAR_AVAILABLE, request, birth_date,
                   loop, swiss, fallback, bazi, fn, arg, ret>>

\* deep_soul_analysis, lines 609-623: whatever the one provider did is
\* recorded, and the bazi part follows.
DeepAfterChart ==
    /\ pc \in {"swiss_return", "fallback_return"}
    /\ request.endpoint = "/deep_analysis"
    /\ pc' = IF LUNAR_AVAILABLE THEN "bazi" ELSE "bazi_return"
    /\ UNCHANGED <<SWISSEPH_AVAILABLE, LUNAR_AVAILABLE, request, birth_date,
                   loop, swiss, fallback, bazi, response, fn, arg, ret>>

\* calculate_bazi_chart, lines 150-245.  lunar_python is outside the
\* repository: whether it raises for the moment is an input.
BaziChart ==
    /\ pc = "bazi"
    /\ IF ~LUNAR_AVAILABLE
       THEN bazi' = [called |-> TRUE, raised |-> TRUE,
                     error |-> "lunar-python unavailable", solar |-> NoFields]
       ELSE IF ~parse_date_string(birth_date).ok
       THEN bazi' = [called |-> TRUE, raised |-> TRUE,
                     error |-> "ValueError: date", solar |-> NoFields]
       ELSE \E lunar_raises \in BOOLEAN :
               bazi' = IF lunar_raises
                       THEN [called |-> TRUE, raised |-> TRUE,
                             error |-> "lunar_python", solar |-> NoFields]
                       ELSE [called |-> TRUE, raised |-> FALSE, error |-> "",
                             solar |-> validate_datetime(
                                           parse_date_string(birth_date),
                                           parse_time_string(request.time))]
    /\ pc' = "bazi_return"
    /\ UNCHANGED <<SWISSEPH_AVAILABLE, LUNAR_AVAILABLE, request, birth_date,
                   loop, swiss, fallback, response, fn, arg, ret>>

\* The chart part of the /deep_analysis response (lines 603, 608-612).
deep_chart_method ==
    IF swiss.raised \/ fallback.raised THEN "failed"
    ELSE IF swiss.called THEN "swiss" ELSE "fallback"

deep_chart ==
    IF swiss.raised THEN ErrorDict(swiss.error)
    ELSE IF fallback.raised THEN ErrorDict(fallback.error)
    ELSE IF swiss.called THEN swiss.result ELSE fallback.result

\* deep_soul_analysis, lines 624-645.
DeepRespond ==
    /\ pc = "bazi_return"
    /\ request.endpoint = "/deep_analysis"
    /\ response' = Response("success", "", deep_chart_method, deep_chart,
                      IF bazi.called /\ ~bazi.raised THEN "lunar" ELSE "failed",
                      IF ~bazi.called THEN ErrorDict("lunar-python unavailable")
                      ELSE IF bazi.raised THEN ErrorDict(bazi.error)
                      ELSE bazi.solar)
    /\ pc' = "done"
    /\ UNCHANGED <<SWISSEPH_AVAILABLE, LUNAR_AVAILABLE, request, birth_date,
                   loop, swiss, fallback, bazi, fn, arg, ret>>

\* analyze_bazi_only, lines 850-867.
BaziRespond ==
    /\ pc = "bazi_return"
    /\ request.endpoint = "/bazi"
    /\ response' = IF bazi.raised THEN error_response(bazi.error)
                   ELSE Response("success", "", "", <<>>, "lunar", bazi.solar)
    /\ pc' = "done"
    /\ UNCHANGED <<SWISSEPH_AVAILABLE, LUNAR_AVAILABLE, request, birth_date,
                   loop, swiss, fallback, bazi, fn, arg, ret>>

\* The response has been sent; the worker serves the next request.
Idle ==
    /\ pc = "done"
    /\ pc' = "idle"
    /\ request' = NoRequest
    /\ birth_date' = <<>>
    /\ loop' = 0
    /\ swiss' = NotCalled
    /\ fallback' = NotCalled
    /\ bazi' = NoBazi
    /\ response' = NoResponse
    /\ UNCHANGED <<SWISSEPH_AVAILABLE, LUNAR_AVAILABLE, fn, arg, ret>>

Next ==
    \/ Chart \/ DeepAnalysis \/ Bazi
    \/ SwissEnter \/ SwissPlanet \/ SwissNode \/ SwissAngles
    \/ FallbackEnter \/ FallbackEntry
    \/ ChartAfterSwiss \/ ChartAfterFallback
    \/ DeepAfterChart \/ BaziChart \/ DeepRespond \/ BaziRespond
    \/ Idle

Spec == Init /\ [][Next]_vars

-----------------------------------------------------------------------------
(* The classifier harness: the pure helpers applied to sample inputs. *)

ClassifierInit ==
    /\ SWISSEPH_AVAILABLE = FALSE
    /\ LUNAR_AVAILABLE = FALSE
    /\ pc = "idle"
    /\ request = NoRequest
    /\ birth_date = <<>>
    /\ loop = 0
    /\ bazi = NoBazi
    /\ swiss = NotCalled
    /\ fallback = NotCalled
    /\ response = NoResponse
    /\ fn = "none"
    /\ arg = <<>>
    /\ ret = <<>>

ApplyHouse ==
    /\ fn = "none"
    /\ \E planet_lon \in Longitudes, houses \in CuspSequences :
          /\ fn' = "get_planet_house"
          /\ arg' = [planet_lon |-> planet_lon, houses |-> houses]
          /\ ret' = get_planet_house(planet_lon, houses)
    /\ UNCHANGED serverVars

ApplySign ==
    /\ fn = "none"
    /\ \E longitude \in Longitudes :
          /\ fn' = "sign"
          /\ arg' = [longitude |-> longitude]
          /\ ret' = [sign_num |-> sign_of(longitude),
                     dm |-> decimal_to_degrees_minutes(longitude)]
    /\ UNCHANGED serverVars

ClassifierNext == ApplyHouse \/ ApplySign

Classifier == ClassifierInit /\ [][ClassifierNext]_vars

-----------------------------------------------------------------------------
(* Properties. *)

\* L lies in the forward circular interval [houses[h], houses[h mod 12 + 1]).
InHouse(L, houses, h) ==
    Mod360(L - houses[h]) < Mod360(houses[(h % 12) + 1] - houses[h])

\* C1: for every longitude in [0,360) and every 12 circular cusps,
\* get_planet_house returns one house h in 1..12 whose forward interval
\* [cusp[h-1], cusp[h mod 12]) holds the longitude, and no other interval does.
C1_HouseTotalSingleValued ==
    fn = "get_planet_house" =>
        /\ ret \in 1..12
        /\ InHouse(arg.planet_lon, arg.houses, ret)
        /\ \A h \in 1..12 : h # ret => ~InHouse(arg.planet_lon, arg.houses, h)

\* A longitude past 0 degrees found in the house whose cusps straddle 0.
C1_Witness ==
    /\ fn = "get_planet_house"
    /\ arg.houses[ret] > arg.houses[(ret % 12) + 1]
    /\ arg.planet_lon < arg.houses[(ret % 12) + 1]
    /\ ret \notin {1, 12}

\* C2 as stated: with cusp index 11 at 350 degrees and cusp index 0 at 10
\* degrees, longitude 355 is in house 12 and longitude 5 is in house 1.
C2_AsStated ==
    (fn = "get_planet_house" /\ arg.houses[12] = Deg(350)
                             /\ arg.houses[1] = Deg(10)) =>
        /\ arg.planet_lon = Deg(355) => ret = 12
        /\ arg.planet_lon = Deg(5) => ret = 1

\* C2: with cusp index 11 at 350 degrees and cusp index 0 at 10 degrees,
\* house 12 is the interval [350, 10) across 0: longitudes 355 and 5 are both
\* in house 12, and house 1 starts at longitude 10.
C2_Wraparound ==
    (fn = "get_planet_house" /\ arg.houses[12] = Deg(350)
                             /\ arg.houses[1] = Deg(10)) =>
        /\ arg.planet_lon = Deg(355) => ret = 12
        /\ arg.planet_lon = Deg(5) => ret = 12
        /\ arg.planet_lon = Deg(10) => ret = 1

\* Longitude 5, past 0 and before the first cusp, found in house 12.
C2_Witness ==
    /\ fn = "get_planet_house"
    /\ arg.houses[12] = Deg(350)
    /\ arg.houses[1] = Deg(10)
    /\ arg.planet_lon = Deg(5)
    /\ ret = 12

\* C3: for every longitude L in [0,360) the sign index is in 0..11, the
\* degree in the sign is in [0,30), and index * 30 + degree is L.
C3_SignAndDegree ==
    fn = "sign" =>
        /\ ret.sign_num \in 0..11
        /\ ret.dm.sign_degree >= 0
        /\ ret.dm.sign_degree < SignWidth
        /\ ret.sign_num * SignWidth + ret.dm.sign_degree = arg.longitude

\* The last sign, one unit before the circle closes.
C3_Witness ==
    /\ fn = "sign"
    /\ arg.longitude = Circle - 1
    /\ ret.sign_num = 11
    /\ ret.dm.sign_degree = SignWidth - 1

\* C4: in approximate mode cusp[i] = (Ascendant + 30 i) mod 360 for i in
\* 0..11; an Ascendant of 15 gives exactly 15, 45, 75, ..., 345.
C4_EqualHouseCusps ==
    (fallback.called /\ DOMAIN fallback.houses # {}) =>
        /\ DOMAIN fallback.houses = 1..12
        /\ \A i \in 0..11 :
              /\ fallback.houses[i + 1] \in 0..(Circle - 1)
              /\ \E turns \in {0, 1} :
                    fallback.houses[i + 1] + turns * Circle
                        = fallback.asc + i * Deg(30)
        /\ fallback.asc = Deg(15) =>
              \A i \in 0..11 : fallback.houses[i + 1] = Deg(15 + 30 * i)

\* Cusps built from an Ascendant of 350 degrees: eleven of them wrap.
C4_Witness ==
    /\ pc = "fallback_entry"
    /\ fallback.asc = Deg(350)
    /\ fallback.houses[1] = Deg(350)
    /\ fallback.houses[2] = Deg(20)
    /\ fallback.houses[12] = Deg(320)

\* C5: on every chart endpoint a failed high-precision computation is
\* followed by the approximate provider; the request fails only if both do.
C5_FallbackAfterSwissFailure ==
    (pc = "done" /\ request.endpoint \in {"/chart", "/deep_analysis"}
                 /\ swiss.called /\ swiss.raised) => fallback.called

\* C6: when one body's computation faults the chart is still returned, the
\* failed body is in it as an error marker and the status is "partial".
C6_PartialFailure ==
    (pc = "done" /\ swiss.faulted = {"Mars"}) =>
        /\ response.status = "partial"
        /\ "Mars" \in DOMAIN response.chart

\* A month, day, hour or minute of the request outside its domain.
OutOfDomain ==
    LET d == parse_date_string(birth_date)
        t == parse_time_string(request.time)
    IN  /\ request.users > 0
        /\ d.ok
        /\ \/ d.month \notin 1..12
           \/ d.day \notin 1..31
           \/ t.hour \notin 0..23
           \/ t.minute \notin 0..59

\* C7: a request with an out-of-domain date or time field is rejected; no
\* provider goes on to compute from substituted values.
C7_OutOfDomainRejected ==
    OutOfDomain =>
        /\ fallback.jd = <<>>
        /\ swiss.called => swiss.houses = <<>>
        /\ bazi.called => bazi.raised

\* The time string is one parse_time_string reads, not one it defaults.
WellFormedTime(time_str) ==
    LET c == SelectSeq(time_str, LAMBDA x : x # " ")
    IN  \/ Contains(c, ":") /\ int(split(c, ":")[1]).ok
                            /\ int(split(c, ":")[2]).ok
        \/ Len(c) = 4 /\ isdigit(c)
        \/ Len(c) <= 2 /\ isdigit(c)

\* C8: for a parseable date and time create_advanced_fallback_chart does not
\* raise and returns an entry for the Sun, the Moon, the eight planets, the
\* Ascendant and the Midheaven.
C8_FallbackAlwaysAvailable ==
    (pc = "fallback_return" /\ parse_date_string(birth_date).ok
                            /\ WellFormedTime(request.time)) =>
        /\ ~fallback.raised
        /\ \A i \in 1..12 : FallbackOrder[i] \in DOMAIN fallback.result

\* C9: the longitude an entry reports, after % 360 and round(., 2), is in
\* [0, 360): never 360.00, never negative.
C9_LongitudeNormalized ==
    /\ fallback.attempt.name # "" =>
          (fallback.attempt.rounded >= 0 /\ fallback.attempt.rounded < 36000)
    /\ swiss.attempt.name # "" =>
          (swiss.attempt.rounded >= 0 /\ swiss.attempt.rounded < 36000)

\* C10: every handler ends with a response object that carries a status,
\* whatever was raised while parsing or computing.
C10_StructuredResponse ==
    pc = "done" => response.status \in {"success", "partial", "error"}

\* /chart answered "error" after the approximate provider raised.
C10_Witness ==
    /\ pc = "done"
    /\ request.endpoint = "/chart"
    /\ fallback.raised
    /\ response.status = "error"

-----------------------------------------------------------------------------
(* Repeated calls.  The server runs as in Spec; an observer keeps, in arg,  *)
(* one provider call as it returned: the arguments it was given, the flags  *)
(* set at import, and everything the call computed.                         *)

\* "20000101"
ProbeDates == {<<"2", "0", "0", "0", "0", "1", "0", "1">>}

\* "12:30"
ProbeTimes == {<<"1", "2", ":", "3", "0">>}

\* Values of the series and of the package the observed call was given.
ProbeLongitudes == {Deg(5), Deg(15)}

ProbeAscendants == {Deg(15)}

ProbeMidheavens == {Deg(110), Deg(285)}

\* The provider that is returning, and what it has done.
Returning == IF pc = "swiss_return" THEN "swiss" ELSE "fallback"

Returned == IF pc = "swiss_return" THEN swiss ELSE fallback

Observe ==
    /\ pc \in {"swiss_return", "fallback_return"}
    /\ fn = "none"
    /\ birth_date \in ProbeDates
    /\ request.time \in ProbeTimes
    /\ Returned.asc \in ProbeAscendants
    /\ Returned.mc \in ProbeMidheavens
    /\ Returned.attempt.longitude \in ProbeLongitudes
    /\ Returned.faulted = {}
    /\ fn' = "observe"
    /\ arg' = [provider |-> Returning, endpoint |-> request.endpoint,
               birth_date |-> birth_date, birth_time |-> request.time,
               latitude |-> request.lat, longitude |-> request.lon,
               SWISSEPH_AVAILABLE |-> SWISSEPH_AVAILABLE,
               LUNAR_AVAILABLE |-> LUNAR_AVAILABLE,
               outcome |-> Returned]
    /\ UNCHANGED <<serverVars, ret>>

PurityNext == Next \/ Observe

Purity == Init /\ [][PurityNext]_vars

\* The provider returning now was given the arguments of the observed call.
SameCall ==
    /\ fn = "observe"
    /\ pc \in {"swiss_return", "fallback_return"}
    /\ arg.provider = Returning
    /\ arg.birth_date = birth_date
    /\ arg.birth_time = request.time
    /\ arg.latitude = request.lat
    /\ arg.longitude = request.lon

\* The series and the package gave it the values they gave the observed call.
SameSky ==
    /\ arg.outcome.asc = Returned.asc
    /\ arg.outcome.mc = Returned.mc
    /\ arg.outcome.houses = Returned.houses
    /\ arg.outcome.attempt.longitude = Returned.attempt.longitude
    /\ arg.outcome.faulted = Returned.faulted

-----------------------------------------------------------------------------
(* The calendar harness: the Julian day of a date and of the date after it. *)

\* Years of the dates tried.
MinYear == 1899

MaxYear == 2101

\* The epoch of line 446.
J2000 == 2451545

leap_year(y) == (y % 4 = 0 /\ y % 100 # 0) \/ y % 400 = 0

days_in_month(y, m) ==
    IF m = 2 THEN (IF leap_year(y) THEN 29 ELSE 28)
    ELSE IF m \in {4, 6, 9, 11} THEN 30 ELSE 31

\* The calendar date after year-month-day.
next_date(y, m, d) ==
    IF d < days_in_month(y, m) THEN [year |-> y, month |-> m, day |-> d + 1]
    ELSE IF m < 12 THEN [year |-> y, month |-> m + 1, day |-> 1]
    ELSE [year |-> y + 1, month |-> 1, day |-> 1]

\* Clock times, as <<hour, minute>>.
Clocks == {<<0, 0>>, <<12, 0>>, <<23, 59>>}

ApplyJulian ==
    /\ fn = "none"
    /\ \E y \in MinYear..MaxYear, m \in 1..12, clock \in Clocks :
       \E d \in 1..days_in_month(y, m) :
          /\ fn' = "julian_day"
          /\ arg' = [year |-> y, month |-> m, day |-> d,
                     hour |-> clock[1], minute |-> clock[2]]
          /\ ret' = [today |-> julian_day(y, m, d, clock[1], clock[2]),
                     tomorrow |-> julian_day(next_date(y, m, d).year,
                                             next_date(y, m, d).month,
                                             next_date(y, m, d).day,
                                             clock[1], clock[2])]
    /\ UNCHANGED serverVars

CalendarNext == ApplyJulian

Calendar == ClassifierInit /\ [][CalendarNext]_vars

\* C13: for every valid Gregorian date the Julian day at a fixed clock time
\* is exactly 1 more on the next calendar date, across month ends, year ends
\* and leap-year Februaries, and 2000-01-01 12:00 is 2451545.0.
C13_JulianDay ==
    fn = "julian_day" =>
        /\ ret.tomorrow.halfdays = ret.today.halfdays + 2
        /\ ret.tomorrow.minutes = ret.today.minutes
        /\ (arg.year = 2000 /\ arg.month = 1 /\ arg.day = 1
              /\ arg.hour = 12 /\ arg.minute = 0) =>
              (ret.today.halfdays + 1 = 2 * J2000 /\ ret.today.minutes = 720)

\* The step from 29 February 2000 to 1 March, days after the epoch.
C13_Witness ==
    /\ fn = "julian_day"
    /\ arg.year = 2000 /\ arg.month = 2 /\ arg.day = 29
    /\ arg.hour = 12
    /\ ret.today.halfdays + 1 = 2 * (J2000 + 59)
    /\ ret.tomorrow.halfdays + 1 = 2 * (J2000 + 60)

-----------------------------------------------------------------------------
(* The planets' eccentric anomaly (lines 494-501), applied to sample mean    *)
(* anomalies.  Sines are taken in thousandths by Bhaskara's rational         *)
(* approximation, 4x(180 - x) / (40500 - x(180 - x)) for x in [0, 180]       *)
(* degrees, whose error is below 2 thousandths.                              *)

\* 1000 * math.sin(math.radians(x)) for an angle x in model units.
sin1000(x) ==
    LET r == Mod360(x)
        h == IF r < Deg(180) THEN r ELSE r - Deg(180)
        t == (h * 10) \div Resolution
        p == t * (1800 - t)
        v == (4 * p) \div ((4050000 - p) \div 1000)
    IN  IF r < Deg(180) THEN v ELSE 0 - v

\* The "e" column of planet_data (lines 481-490), in units of 1/10000.
planet_data ==
    [Mercury |-> 2056, Venus |-> 68, Mars |-> 934, Jupiter |-> 484,
     Saturn |-> 542, Uranus |-> 472, Neptune |-> 86, Pluto |-> 2488]

\* e * math.degrees(math.sin(math.radians(x))), in model units; 573 is ten
\* times the degrees in a radian.
e_sin(e, x) == (((e * sin1000(x) * 573) \div 100000) * Resolution) \div 1000

\* Line 498: E = M_planet + e * degrees(sin(radians(M_planet))), computed
\* once.  Line 501 stores a bare float: nothing can be attached to it.
eccentric_anomaly(planet_name, M_planet) ==
    [E |-> M_planet + e_sin(planet_data[planet_name], M_planet),
     warnings |-> {}]

\* Mean anomalies, (L - L0) % 360 of line 497.
MeanAnomalies == {Deg(15 * k) : k \in 0..23}

ApplyKepler ==
    /\ fn = "none"
    /\ \E planet_name \in DOMAIN planet_data, M_planet \in MeanAnomalies :
          /\ fn' = "kepler"
          /\ arg' = [planet_name |-> planet_name, M_planet |-> M_planet]
          /\ ret' = eccentric_anomaly(planet_name, M_planet)
    /\ UNCHANGED serverVars

KeplerNext == ApplyKepler

Kepler == ClassifierInit /\ [][KeplerNext]_vars

\* What an iterate E leaves of Kepler's equation, E - e sin E - M, in model
\* units.
kepler_residual(planet_name, M_planet, E) ==
    E - e_sin(planet_data[planet_name], E) - M_planet

\* The residual below which an iterate counts as converged here: 0.05
\* degrees, far above the 1e-6 degrees of the solver's contract and above the
\* error of the sine approximation.
KeplerTolerance == 50

\* C14: the eccentric anomaly returned for a planet solves Kepler's equation
\* within tolerance, or it is the last iterate of a capped Newton iteration
\* with a ConvergenceWarning attached.
C14_KeplerConvergesOrWarns ==
    fn = "kepler" =>
        \/ /\ kepler_residual(arg.planet_name, arg.M_planet, ret.E)
                 <= KeplerTolerance
           /\ 0 - kepler_residual(arg.planet_name, arg.M_planet, ret.E)
                 <= KeplerTolerance
        \/ "ConvergenceWarning" \in ret.warnings

\* C15: for the equal-house cusps of an Ascendant A in [0,360) and every
\* longitude L in [0,360), get_planet_house returns
\* floor(((L - A) mod 360) / 30) + 1, from a test of the loop that succeeded
\* and not from the return 1 that follows the loop.
C15_EqualHouseClosedForm ==
    (fn = "get_planet_house"
        /\ arg.houses = equal_houses(arg.houses[1])) =>
        /\ ret = Mod360(arg.planet_lon - arg.houses[1]) \div SignWidth + 1
        /\ house_test(arg.planet_lon, arg.houses, ret)

\* Longitude 5 with the Ascendant at 190: the sixth house, [340, 10).
C15_Witness ==
    /\ fn = "get_planet_house"
    /\ arg.houses = equal_houses(Deg(190))
    /\ arg.planet_lon = Deg(5)
    /\ ret = 6

-----------------------------------------------------------------------------
(* The angle entries: the loop body of lines 543-557 applied to the         *)
(* Ascendant and Midheaven items of planet_positions, and lines 390-412.    *)

AngleNames == {"Ascendant", "Midheaven"}

ApplyFallbackAngle ==
    /\ fn = "none"
    /\ \E planet_name \in AngleNames, asc_lon \in Ascendants,
          LST \in SiderealTimes, date \in DateStrings, time \in TimeStrings :
          /\ parse_date_string(date).ok
          /\ fn' = "fallback_entry"
          /\ arg' = [planet_name |-> planet_name, birth_date |-> date,
                     birth_time |-> time, asc_lon |-> asc_lon, LST |-> LST]
          /\ ret' = LET acc == fallback_setup(parse_date_string(date),
                                              parse_time_string(time),
                                              asc_lon, LST)
                    IN  fallback_entry(planet_name,
                                       IF planet_name = "Ascendant"
                                       THEN acc.asc ELSE acc.mc,
                                       acc)
    /\ UNCHANGED serverVars

ApplySwissAngle ==
    /\ fn = "none"
    /\ \E planet_name \in AngleNames, cusps \in SwissCusps :
          /\ fn' = "swiss_angle"
          /\ arg' = [planet_name |-> planet_name, houses |-> cusps]
          /\ ret' = LET acc == Outcome(FALSE, "", NoFields, <<>>, cusps,
                                       cusps[1], cusps[10])
                    IN  IF planet_name = "Ascendant"
                        THEN swiss_angle("Ascendant", acc.asc, 1, acc)
                        ELSE swiss_angle("Midheaven", acc.mc, 10, acc)
    /\ UNCHANGED serverVars

AnglesNext == ApplyFallbackAngle \/ ApplySwissAngle

Angles == ClassifierInit /\ [][AnglesNext]_vars

\* C16: from either provider the Ascendant entry is in house 1 and the
\* Midheaven entry in house 10; the approximate provider, which takes the
\* houses from its equal-house cusps, agrees with the high-precision one.
C16_AngleHouses ==
    fn \in {"fallback_entry", "swiss_angle"} =>
        /\ arg.planet_name = "Ascendant" => ret.attempt.house_num = 1
        /\ arg.planet_name = "Midheaven" => ret.attempt.house_num = 10

====
